---- MODULE Spec2Model ----
(***************************************************************************)
(* Expectiminimax domino (src/expectiminimax_solo.py).                     *)
(*                                                                         *)
(* A Pedra object is identified by its valor <<a, b>> (cria_domino builds  *)
(* each pair once, a >= b); its mutable field position lives in the heap   *)
(* variable position, shared by every GameState that refers to the tile.   *)
(* A GameState is a record of the namedtuple's seven fields; pedras and    *)
(* pedras_restantes are Python lists, modelled as sequences.               *)
(***************************************************************************)
EXTENDS Integers, Sequences, FiniteSets, TLC

\* ------------------------------------------------------------------ bounds
NumDeals == 4
NumScripts == 3
MaxDepth == 2
DeepDepth == 5
PoolDepth == 4

\* ------------------------------------------------------- program constants
NumPips == 7
HandSize == 7
NumPlayers == 4

None == <<>>
Sentinel == <<-1, -1>>
PassMove == <<Sentinel, -1>>

RECURSIVE cria_rows(_, _)
cria_rows(i, j) ==
    IF i >= NumPips THEN <<>>
    ELSE IF j >= NumPips THEN cria_rows(i + 1, 0)
    ELSE IF i >= j THEN <<<<i, j>>>> \o cria_rows(i, j + 1)
    ELSE cria_rows(i, j + 1)

cria_domino == cria_rows(0, 0)

Tiles == {cria_domino[k] : k \in 1..Len(cria_domino)}

Range(s) == {s[k] : k \in 1..Len(s)}

\* Pedra.getValor
getValor(p) == p[1] + p[2]

\* Pedra.igual(self, p): the three ifs are exclusive on p.position
igual(self, p, pos) ==
    \/ /\ pos[p] = -1
       /\ (self[1] = p[1] \/ self[2] = p[2] \/ self[2] = p[1] \/ self[2] = p[1])
    \/ /\ pos[p] = 0
       /\ (self[2] = p[1] \/ self[1] = p[1])
    \/ /\ pos[p] = 1
       /\ (self[2] = p[2] \/ self[1] = p[2])

\* list.remove(x): drops the first element equal to x (Pedra.__eq__ compares
\* the unordered pair, which for a >= b pairs is equality of valor)
RECURSIVE RemoveFirst(_, _)
RemoveFirst(s, x) ==
    IF s = <<>> THEN <<>>
    ELSE IF Head(s) = x THEN Tail(s)
    ELSE <<Head(s)>> \o RemoveFirst(Tail(s), x)

\* list.sort(key = valor[0] + valor[1]): stable, ascending
RECURSIVE InsertByValor(_, _)
InsertByValor(s, x) ==
    IF s = <<>> THEN <<x>>
    ELSE IF getValor(Head(s)) <= getValor(x) THEN <<Head(s)>> \o InsertByValor(Tail(s), x)
    ELSE <<x>> \o s

RECURSIVE SortByValor(_)
SortByValor(s) ==
    IF s = <<>> THEN <<>>
    ELSE InsertByValor(SortByValor(SubSeq(s, 1, Len(s) - 1)), s[Len(s)])

RECURSIVE SumValor(_)
SumValor(s) == IF s = <<>> THEN 0 ELSE getValor(Head(s)) + SumValor(Tail(s))

Min2(a, b) == IF a < b THEN a ELSE b

\* ---------------------------------------------------------- Domino.moves
\* the entry one tile contributes (lines 306-315 / 317-326)
MoveEntry(pedra, ponta1, ponta2, pos) ==
    IF ponta1 # None
    THEN IF igual(pedra, ponta1, pos) THEN <<<<pedra, 0>>>>
         ELSE IF igual(pedra, ponta2, pos) THEN <<<<pedra, 1>>>>
         ELSE <<>>
    ELSE <<<<pedra, -1>>>>

RECURSIVE MoveEntries(_, _, _, _)
MoveEntries(s, ponta1, ponta2, pos) ==
    IF s = <<>> THEN <<>>
    ELSE MoveEntry(Head(s), ponta1, ponta2, pos) \o MoveEntries(Tail(s), ponta1, ponta2, pos)

\* the counter i is incremented only in the branches with ponta1 set
moves(to_move, pedras, pedras_restantes, ponta1, ponta2, player, pos) ==
    LET src == IF to_move = player THEN pedras ELSE pedras_restantes
        ms == MoveEntries(src, ponta1, ponta2, pos)
        i == IF ponta1 # None THEN Len(ms) ELSE 0
    IN IF i = 0 THEN ms \o <<PassMove>> ELSE ms

\* ------------------------------------------------ Domino.compute_utility
\* some tile of the list matches one of the ends (lines 335-340)
can_match(lista, ponta1, ponta2, pos) ==
    \E k \in 1..Len(lista) : igual(lista[k], ponta1, pos) \/ igual(lista[k], ponta2, pos)

utility_pass_loss(to_move, pedras, pedras_restantes, ponta1, ponta2, player, pos) ==
    [utility |-> -1, pedras_restantes |-> pedras_restantes]

\* the branch of a pass on set ends (lines 335-358); returns the marker and
\* the list object pedras_restantes as the branch leaves it
utility_pass(to_move, pedras, pedras_restantes, ponta1, ponta2, player, pos) ==
    IF can_match(pedras_restantes, ponta1, ponta2, pos)
    THEN [utility |-> 0, pedras_restantes |-> pedras_restantes]
    ELSE IF can_match(pedras, ponta1, ponta2, pos)
    THEN [utility |-> 0, pedras_restantes |-> pedras_restantes]
    ELSE LET total == Len(pedras)
             soma == SumValor(pedras)
             sorted == SortByValor(pedras_restantes)
             soma_res == SumValor(SubSeq(sorted, 1, Min2(total, Len(sorted))))
         IN [utility |-> IF soma < soma_res
                         THEN (IF to_move # player THEN -1 ELSE 4)
                         ELSE (IF to_move # player THEN -1 ELSE 4),
             pedras_restantes |-> sorted]

utility_placement_after(to_move, pedras, pedras_restantes, player) ==
    IF to_move = player
    THEN (IF Len(pedras) = 0 THEN 4 ELSE 0)
    ELSE (IF Len(pedras_restantes) = 3 THEN -1 ELSE 0)

\* the branch of a placement (lines 361-370)
utility_placement(to_move, pedras, pedras_restantes, player) ==
    IF to_move = player
    THEN (IF Len(pedras) = 1 THEN 4 ELSE 0)
    ELSE (IF Len(pedras_restantes) = 3 THEN -1 ELSE 0)

compute_utility(to_move, pedras, pedras_restantes, ponta1, ponta2, move, player, pos) ==
    IF move[1][1] = -1 /\ ponta1 # None
    THEN utility_pass(to_move, pedras, pedras_restantes, ponta1, ponta2, player, pos)
    ELSE IF move[1][1] # -1
    THEN [utility |-> utility_placement(to_move, pedras, pedras_restantes, player),
          pedras_restantes |-> pedras_restantes]
    ELSE [utility |-> -1, pedras_restantes |-> pedras_restantes]

\* ---------------------------------------------------------- Domino.result
\* orientation markers after lines 428-450
result_position(state, move, pos) ==
    LET m == move[1]
        p1 == state.ponta1
        p2 == state.ponta2
        Mark1(q) == IF q[p1] = -1 THEN [q EXCEPT ![p1] = 1] ELSE q
    IN IF m[1] = -1 THEN pos
       ELSE IF p1 # None
       THEN IF move[2] = 0
            THEN IF m[1] = p1[1] \/ m[1] = p1[2] THEN Mark1([pos EXCEPT ![m] = 1])
                 ELSE IF m[2] = p1[1] \/ m[2] = p1[2] THEN Mark1([pos EXCEPT ![m] = 0])
                 ELSE pos
            ELSE IF move[2] = 1
            THEN IF m[1] = p2[1] \/ m[1] = p2[2] THEN [pos EXCEPT ![m] = 1]
                 ELSE IF m[2] = p2[1] \/ m[2] = p2[2] THEN [pos EXCEPT ![m] = 0]
                 ELSE pos
            ELSE pos
       ELSE [pos EXCEPT ![m] = -1]

result_pontas_forget(state, move) ==
    LET m == move[1]
    IN IF m[1] = -1 THEN <<None, None>>
       ELSE IF state.ponta1 # None
       THEN IF move[2] = 0 THEN <<m, state.ponta2>>
            ELSE IF move[2] = 1 THEN <<state.ponta1, m>>
            ELSE <<state.ponta1, state.ponta2>>
       ELSE <<m, m>>

\* the two ends after lines 424-450
result_pontas(state, move) ==
    LET m == move[1]
    IN IF m[1] = -1 THEN <<state.ponta1, state.ponta2>>
       ELSE IF state.ponta1 # None
       THEN IF move[2] = 0 THEN <<m, state.ponta2>>
            ELSE IF move[2] = 1 THEN <<state.ponta1, m>>
            ELSE <<state.ponta1, state.ponta2>>
       ELSE <<m, m>>

\* the hand and the pool after lines 451-454
result_pedras(state, move, player) ==
    IF move[1][1] # -1 /\ state.to_move = player
    THEN RemoveFirst(state.pedras, move[1])
    ELSE state.pedras

result_restantes_keep(state, move, player) == state.pedras_restantes

result_restantes(state, move, player) ==
    IF move[1][1] # -1 /\ state.to_move # player
    THEN RemoveFirst(state.pedras_restantes, move[1])
    ELSE state.pedras_restantes

result_to_move_same(state) == state.to_move

\* the seat to move after line 456
result_to_move(state) == (state.to_move + 1) % NumPlayers

\* result(state, move, player) on the heap pos.  new_state is the returned
\* GameState, pos the heap after the call, state the argument as the call
\* leaves it (compute_utility sorts state.pedras_restantes itself, the copy
\* taken on line 423 keeps the order it had), raised is list.remove's
\* ValueError.
result(state, move, player, pos) ==
    LET cu == compute_utility(state.to_move, state.pedras, state.pedras_restantes,
                              state.ponta1, state.ponta2, move, player, pos)
        m == move[1]
        placement == m[1] # -1
        pos2 == result_position(state, move, pos)
        pontas == result_pontas(state, move)
        own == state.to_move = player
        raised == placement /\ m \notin Range(IF own THEN state.pedras ELSE state.pedras_restantes)
        pedras == result_pedras(state, move, player)
        pedras_restantes == result_restantes(state, move, player)
        to_move == result_to_move(state)
    IN [raised |-> raised,
        pos |-> pos2,
        state |-> [state EXCEPT !.pedras_restantes = cu.pedras_restantes],
        new_state |-> [to_move |-> to_move,
                       pedras |-> pedras,
                       pedras_restantes |-> pedras_restantes,
                       ponta1 |-> pontas[1],
                       ponta2 |-> pontas[2],
                       moves |-> moves(to_move, pedras, pedras_restantes,
                                       pontas[1], pontas[2], player, pos2),
                       utility |-> cu.utility]]

terminal_test_never(state) == FALSE

\* Domino.terminal_test
terminal_test(state) == state.utility # 0

\* ----------------------------------------------- chances / probability / outcome
\* Domino.ponta1 / Domino.ponta2 (the filters)
ponta1(move) == move[2] = 0
ponta2(move) == move[2] = 1

\* an event is <<category, moves, n_moves, n>>
chances(state) ==
    LET n_moves == Len(state.moves)
        n == Len(state.pedras_restantes)
        p1 == <<1, SelectSeq(state.moves, ponta1), n_moves, n>>
        p2 == <<2, SelectSeq(state.moves, ponta2), n_moves, n>>
        pi == <<-1, <<PassMove>>, n_moves, n>>
    IN IF state.to_move # 0
       THEN (IF Len(p1[2]) > 0 THEN <<p1>> ELSE <<>>)
            \o (IF Len(p2[2]) > 0 THEN <<p2>> ELSE <<>>)
            \o <<pi>>
       ELSE <<<<0, state.moves, n_moves, Len(state.pedras)>>>>

\* the quotient as the fraction <<numerator, denominator>>; a denominator 0
\* is Python's ZeroDivisionError
probability(chance) ==
    IF chance[1] = 1 \/ chance[1] = 2 THEN <<Len(chance[2]), chance[4]>>
    ELSE IF chance[1] = -1 THEN <<chance[4] - chance[3], chance[4]>>
    ELSE <<1, 1>>

outcome(state, chance) == [state EXCEPT !.moves = chance[2]]

\* ------------------------------------------------------------ Domino.eval
\* Python's float values are carried as integers in units of 1 / Escala,
\* every quotient rounded down
Escala == 1000000

\* util * game.probability(chance) (line 136), probability a fraction
Times(util, q) == (util * q[1]) \div q[2]

\* Domino.buchas: the doubles of the hand, the double blank counting 1
RECURSIVE buchas(_)
buchas(pedras) ==
    IF pedras = <<>> THEN 0
    ELSE (LET p == Head(pedras)
          IN IF p[1] = p[2] THEN (IF p[1] # 0 THEN p[1] ELSE 1) ELSE 0)
         + buchas(Tail(pedras))

\* Domino.soma_pedras_max
soma_pedras_max(state) == SumValor(state.pedras)

\* Domino.checa_diversidade_max: the number of pips the hand carries
checa_diversidade_max(state) ==
    Cardinality({e \in 0..(NumPips - 1) :
        \E k \in 1..Len(state.pedras) : e = state.pedras[k][1] \/ e = state.pedras[k][2]})

\* the local movimentos of eval (line 290): moves() called with the searching
\* player as the mover
movimentos(state, pl, pos) ==
    moves(pl, state.pedras, state.pedras_restantes, state.ponta1, state.ponta2, pl, pos)

\* the mobility term of eval: len(movimentos) (lines 296 and 298)
mobility(state, pl, pos) == Len(movimentos(state, pl, pos))

\* Domino.eval returns a number for seats 0, 1 and 2 and falls off its end
\* (None) for any other seat
eval_defined(pl) == pl = 0 \/ pl = 1 \/ pl = 2

\* Domino.eval(state, player): <<value>>, or <<>> for None
eval(state, pl, pos) ==
    LET decimo == Escala \div 10
        n == Len(state.pedras)
        delta07 == (7 * decimo * Len(state.pedras_restantes)) \div 3 - 7 * decimo * n
        b == buchas(state.pedras)
        mobilidade == mobility(state, pl, pos)
        soma == soma_pedras_max(state)
        diversidade == checa_diversidade_max(state)
    IN IF pl = 0
       THEN <<(-9) * decimo * b - 2 * decimo * n + delta07 - 4 * decimo * soma>>
       ELSE IF pl = 1
       THEN <<5 * decimo * mobilidade + 6 * decimo * diversidade>>
       ELSE IF pl = 2
       THEN <<(-9) * decimo * b - 2 * decimo * n + delta07 + 5 * decimo * mobilidade
              - 4 * decimo * soma + 6 * decimo * diversidade>>
       ELSE <<>>

\* ------------------------------------------------- expectiminimax, values
\* an exception: its type, the function whose statement raised it and the
\* depth argument of the chance_node call it was raised in
Raised(tipo, em, depth) == <<[tipo |-> tipo, em |-> em, depth |-> depth]>>

\* sum_chances += util * game.probability(chance), line 136, where it
\* raises: u is what max_value/min_value gave for util (an exception of its
\* own, or a value, <<>> for None), q the fraction of probability
product_error(u, q, depth) ==
    IF u.error THEN u.erro
    ELSE IF q[2] = 0 THEN Raised("ZeroDivisionError", "probability", depth)
    ELSE Raised("TypeError", "chance_node", depth)

\* v = max(v, x) of max_value and argmax, v = min(v, x) of min_value; v is
\* <<>> for the infinity it starts from
max_min(maximise, v, x) ==
    IF v = <<>> THEN <<x>>
    ELSE IF maximise THEN (IF x > v[1] THEN <<x>> ELSE v)
    ELSE (IF x < v[1] THEN <<x>> ELSE v)

\* max_value / min_value / chance_node of searching player pl with depth
\* limit dl, as functions: they return the value v, the argument state as the
\* call leaves it (its pool list is re-sorted in place by result), the heap
\* pos after the call, and error for an exception (list.remove's ValueError,
\* the TypeError of None * float, ZeroDivisionError) with erro the exception
\* raised
RECURSIVE max_min_value(_, _, _, _, _)
RECURSIVE value_loop(_, _, _, _, _, _, _)
RECURSIVE chance_node(_, _, _, _, _, _)
RECURSIVE chance_loop(_, _, _, _, _, _, _, _)

\* the for loop of chance_node from event j on; res is res_state, soma is
\* sum_chances
chance_loop(res, cs, j, soma, depth, pl, dl, pos) ==
    IF j > Len(cs)
    THEN [error |-> FALSE, erro |-> <<>>, v |-> soma \div Len(cs), pos |-> pos]
    ELSE LET out == outcome(res, cs[j])
             q == probability(cs[j])
             u == max_min_value(out, depth + 1, pl, dl, pos)
         IN IF u.error \/ u.v = <<>> \/ q[2] = 0
            THEN [error |-> TRUE, erro |-> product_error(u, q, depth), v |-> 0,
                  pos |-> u.pos]
            ELSE chance_loop(u.state, cs, j + 1, soma + Times(u.v[1], q),
                             depth, pl, dl, u.pos)

chance_node(state, action, depth, pl, dl, pos) ==
    LET r == result(state, action, pl, pos)
        ev == eval(r.state, pl, r.pos)
    IN IF r.raised
       THEN [error |-> TRUE, erro |-> Raised("ValueError", "result", depth), v |-> 0,
             state |-> r.state, pos |-> r.pos]
       ELSE IF terminal_test(r.new_state)
       THEN [error |-> FALSE, erro |-> <<>>, v |-> r.new_state.utility * Escala,
             state |-> r.state, pos |-> r.pos]
       ELSE IF depth >= dl
       THEN [error |-> ev = <<>>,
             erro |-> IF ev = <<>> THEN Raised("TypeError", "max_value", depth) ELSE <<>>,
             v |-> IF ev = <<>> THEN 0 ELSE ev[1],
             state |-> r.state, pos |-> r.pos]
       ELSE LET c == chance_loop(r.new_state, chances(r.new_state), 1, 0,
                                 depth, pl, dl, r.pos)
            IN [error |-> c.error, erro |-> c.erro, v |-> c.v, state |-> r.state,
                pos |-> c.pos]

\* the for loop of max_value / min_value from action i on
value_loop(state, i, v, depth, pl, dl, pos) ==
    IF i > Len(state.moves)
    THEN [error |-> FALSE, erro |-> <<>>, v |-> v, state |-> state, pos |-> pos]
    ELSE LET c == chance_node(state, state.moves[i], depth, pl, dl, pos)
         IN IF c.error
            THEN [error |-> TRUE, erro |-> c.erro, v |-> <<>>, state |-> c.state,
                  pos |-> c.pos]
            ELSE value_loop(c.state, i + 1, max_min(state.to_move = pl, v, c.v),
                            depth, pl, dl, c.pos)

\* max_value(state, depth) when state.to_move is pl, min_value otherwise;
\* v is <<>> when eval returns None
max_min_value(state, depth, pl, dl, pos) ==
    IF depth >= dl
    THEN [error |-> FALSE, erro |-> <<>>, v |-> eval(state, pl, pos), state |-> state,
          pos |-> pos]
    ELSE value_loop(state, 1, <<>>, depth, pl, dl, pos)

\* ------------------------------------------------------ the outer match
\* Domino.pode_jogar over the real hands jog
pode_jogar(i, state, jog, pos) ==
    IF state.ponta1 # None
    THEN \E k \in 1..Len(jog[i + 1]) :
            igual(jog[i + 1][k], state.ponta1, pos) \/ igual(jog[i + 1][k], state.ponta2, pos)
    ELSE TRUE

\* Domino.soma_pedras
soma_pedras(i, jog) == SumValor(jog[i + 1])

\* Domino.menor_soma: argmax is max, the first seat of least sum
menor_soma(jog) ==
    CHOOSE a \in 0..(NumPlayers - 1) :
        /\ \A b \in 0..(NumPlayers - 1) : soma_pedras(a, jog) <= soma_pedras(b, jog)
        /\ \A b \in 0..(a - 1) : soma_pedras(b, jog) > soma_pedras(a, jog)

\* Domino.vitoria
vitoria(state, jog, pos) ==
    IF \E i \in 0..(NumPlayers - 1) : Len(jog[i + 1]) = 0
    THEN CHOOSE i \in 0..(NumPlayers - 1) :
            Len(jog[i + 1]) = 0 /\ \A b \in 0..(i - 1) : Len(jog[b + 1]) # 0
    ELSE IF \E i \in 0..(NumPlayers - 1) : pode_jogar(i, state, jog, pos)
    THEN -1
    ELSE menor_soma(jog)

\* random.randint(0, n) of deal k at draw s: one of the values it can return.
\* A deal k < 0 draws the first tile of the list for seats 0 and 1 and the
\* last tile from then on, which hands seat 2 the seven tiles with a 6.
randint(k, s, n) ==
    IF k < 0 THEN (IF s < 2 * HandSize THEN 1 ELSE 0)
    ELSE (k * (s + 1)) % (n + 1)

\* Domino.escolhe_pedras: draw s pops index pos - 1 (pos = 0 pops the last)
RECURSIVE escolhe_rec(_, _, _, _)
escolhe_rec(pedras, s, k, jog) ==
    IF s >= NumPlayers * HandSize THEN jog
    ELSE LET n == Len(pedras)
             pos == randint(k, s, n)
             idx == IF pos = 0 THEN n ELSE pos
             j == s \div HandSize
         IN escolhe_rec(SubSeq(pedras, 1, idx - 1) \o SubSeq(pedras, idx + 1, n),
                        s + 1, k,
                        [jog EXCEPT ![j + 1] = Append(@, pedras[idx])])

escolhe_pedras(k) == escolhe_rec(cria_domino, 0, k, [j \in 1..NumPlayers |-> <<>>])

\* the pool play_game and __init__ build for seat to_move
RECURSIVE pool_of(_, _, _)
pool_of(jog, to_move, i) ==
    IF i >= NumPlayers THEN <<>>
    ELSE (IF i # to_move THEN jog[i + 1] ELSE <<>>) \o pool_of(jog, to_move, i + 1)

\* Domino.__init__: self.initial
initial(jog, pos) ==
    LET pedras_restantes == pool_of(jog, 0, 1)
    IN [to_move |-> 0,
        pedras |-> jog[1],
        pedras_restantes |-> pedras_restantes,
        ponta1 |-> None,
        ponta2 |-> None,
        moves |-> moves(0, jog[1], pedras_restantes, None, None, 0, pos),
        utility |-> 0]

\* the depth limit expectiminimax takes from the root hand
depth_limit(n) ==
    IF n = 7 \/ n = 6 THEN 7
    ELSE IF n = 5 \/ n = 4 THEN 5
    ELSE 9

\* the line-up graph_winrates is called with, and the line-up with the two
\* agents swapped (play_game takes any callables)
Lineups ==
    { <<"expectiminimax", "expectiminimax", "expectiminimax", "random_player">>,
      <<"random_player", "random_player", "random_player", "expectiminimax">> }

\* ------------------------------------------------------------------ state
VARIABLES
    jogadores,  \* Domino.jogadores: the four real hands
    players,    \* play_game's *players
    state,      \* play_game's local state
    position,   \* heap: Pedra.position of every tile object
    pc,         \* "player", "search", "apply", "done", "error" (an exception) or
                \* "returned" (a direct result() call has returned)
    move,       \* the move the player callback returned
    vencedor,   \* play_game's return value, -1 while the match runs
    player,     \* expectiminimax: the searching player
    d,          \* expectiminimax: the depth limit
    stack,      \* expectiminimax: the max_value/min_value/chance_node frames
    call,       \* the last result() call: arguments, heap and returned state
    mesa,       \* the tiles placed in the match so far, in order
    seed,       \* the script the callbacks' choices follow in this match
    limite,     \* the deepest level whose loop the model follows step by step
    avalia,     \* the levels below limite are evaluated at once (or left open)
    erro,       \* the exception that ended play_game, <<>> while there is none
    jogada      \* the number of callbacks that have returned

vars == <<jogadores, players, state, position, pc, move, vencedor, player, d,
          stack, call, mesa, seed, limite, avalia, erro, jogada>>

\* a frame is one max_value/min_value activation (the root: the argmax of
\* line 140) together with the chance_node call it is in: state and depth are
\* its arguments, i the index of the action the for loop is at, res the
\* local res_state of chance_node (<<>> outside a chance_node call), chances
\* and j its event list and loop index; mesa and res_mesa are the tiles
\* placed on the way to state and to res_state.  v is the local v (<<>>: the
\* infinity it starts from), best the index of the action v came from (what
\* argmax returns at the root), util the value the last chance_node call of
\* the loop returned, sum_chances the local of the chance_node call; cut
\* tells that a level below was not followed, so that v is not known
Frame(st, depth, placed) ==
    [state |-> st, depth |-> depth, i |-> 1, res |-> <<>>, chances |-> <<>>,
     j |-> 1, mesa |-> placed, res_mesa |-> placed,
     v |-> <<>>, best |-> 0, util |-> <<>>, sum_chances |-> 0, cut |-> FALSE]

Top == stack[Len(stack)]

SetTop(f) == [stack EXCEPT ![Len(stack)] = f]

\* the comparison of lines 342-349 on a blocked board: the hand's pip sum is
\* lower than the pip sum of the len(hand) lowest pool tiles
soma_menor(pedras, pedras_restantes) ==
    LET sorted == SortByValor(pedras_restantes)
    IN SumValor(pedras) < SumValor(SubSeq(sorted, 1, Min2(Len(pedras), Len(sorted))))

\* what a result() call adds to the blocked passes seen in the match: for a
\* pass on a board no hand or pool tile matches, whether the mover is the
\* searching player, how the comparison came out, and the marker returned
Bloqueio(st, mv, pl, pos, r) ==
    IF /\ mv[1][1] = -1
       /\ st.ponta1 # None
       /\ ~can_match(st.pedras_restantes, st.ponta1, st.ponta2, pos)
       /\ ~can_match(st.pedras, st.ponta1, st.ponta2, pos)
    THEN {[own |-> st.to_move = pl,
           lower |-> soma_menor(st.pedras, st.pedras_restantes),
           utility |-> r.new_state.utility]}
    ELSE {}

\* the record of a result() call: the arguments and the heap before it, the
\* argument and the heap after it, the returned state; placed: the tiles
\* placed on the way to the argument state; depth: the depth argument of the
\* chance_node call that made it (0 in play_game); bloqueios: the blocked
\* passes of the result() calls of the match up to this one
CallRecord(site, st, mv, pl, pos, r, placed) ==
    <<[site |-> site, state |-> st, move |-> mv, player |-> pl, pos |-> pos,
       depth |-> IF site = "search" THEN Len(stack) ELSE 0,
       state_after |-> r.state, pos_after |-> r.pos, res |-> r.new_state,
       raised |-> r.raised, mesa |-> placed,
       res_mesa |-> IF mv[1][1] # -1 THEN Append(placed, mv[1]) ELSE placed,
       bloqueios |-> (IF call = <<>> THEN {} ELSE call[1].bloqueios)
                     \cup Bloqueio(st, mv, pl, pos, r)]>>

\* a match: deal k, the callbacks lineup, choice script sd, followed step
\* by step to level lim, the levels below evaluated at once if av
Match(k, lineup, sd, lim, av) ==
    /\ jogadores = escolhe_pedras(k)
    /\ players = lineup
    /\ seed = sd
    /\ limite = lim
    /\ avalia = av

Start ==
    /\ position = [t \in Tiles |-> -1]
    /\ state = initial(jogadores, position)
    /\ pc = "player"
    /\ move = PassMove
    /\ vencedor = -1
    /\ player = 0
    /\ d = 0
    /\ stack = <<>>
    /\ call = <<>>
    /\ mesa = <<>>
    /\ erro = <<>>
    /\ jogada = 0

Init ==
    /\ \E k \in 0..(NumDeals - 1), lineup \in Lineups, sd \in 0..(NumScripts - 1) :
            Match(k, lineup, sd, MaxDepth, FALSE)
    /\ Start

\* one match in which seat 1 alone searches, followed to DeepDepth (deal 34
\* is one in which the search meets a blocked board at each seat's turn)
InitDeep ==
    /\ Match(34, <<"random_player", "expectiminimax", "random_player", "random_player">>,
             0, DeepDepth, FALSE)
    /\ Start

\* one match of the line-up of line 571 in which the searches meet blocked
\* boards with the hand's pip sum on either side of the pool's (deal 50)
InitBlocked ==
    /\ Match(50, <<"expectiminimax", "expectiminimax", "expectiminimax", "random_player">>,
             1, MaxDepth, FALSE)
    /\ Start

\* one match whose searches are evaluated to their depth limit: seats 0 and
\* 1 choose at random and pass on the empty board, seat 2 searches holding
\* the seven tiles with a 6, seat 3 searches next
InitSuit ==
    /\ Match(-1, <<"random_player", "random_player", "expectiminimax", "expectiminimax">>,
             -1, MaxDepth, TRUE)
    /\ Start

\* the index of the move the callback of this turn returns from a list of n
\* moves: one of the values random.choice (and argmax) can give; a script
\* seed < 0 takes the last entry of every list
escolha(n) == IF seed < 0 THEN n ELSE ((seed * (jogada + 1)) % n) + 1

\* random_player: random.choice(game.actions(state))
RandomPlayer ==
    /\ pc = "player"
    /\ players[state.to_move + 1] = "random_player"
    /\ move' = state.moves[escolha(Len(state.moves))]
    /\ jogada' = jogada + 1
    /\ pc' = "apply"
    /\ UNCHANGED <<jogadores, players, state, position, vencedor, player, d, stack,
                   call, mesa, seed, limite, avalia, erro>>

\* expectiminimax(game, state), lines 94-102 and the call of argmax
ExpectiminimaxStart ==
    /\ pc = "player"
    /\ players[state.to_move + 1] = "expectiminimax"
    /\ player' = state.to_move
    /\ d' = depth_limit(Len(state.pedras))
    /\ stack' = <<Frame(state, 1, mesa)>>
    /\ pc' = "search"
    /\ UNCHANGED <<jogadores, players, state, position, move, vencedor, call, mesa, seed, limite, avalia, erro, jogada>>

Enters_late(depth) == depth <= d /\ depth <= limite

\* max_value/min_value(state, depth) enters its for loop: the depth test of
\* lines 106/113 fails, and the model follows the levels up to limite only
Enters(depth) == depth < d /\ depth <= limite

\* the for loop of the top frame is at an action
Looping(f) == f.res = <<>> /\ f.i <= Len(f.state.moves)

\* v = max(v, x) in max_value and in argmax (the first maximum is kept),
\* v = min(v, x) in min_value, for the value x chance_node returned for the
\* action the loop of frame f is at; the loop moves on to the next action
Fold(f, x) ==
    LET w == max_min(f.state.to_move = player, f.v, x)
    IN [f EXCEPT !.v = w,
                 !.best = IF w # f.v THEN f.i ELSE @,
                 !.util = <<x>>,
                 !.i = f.i + 1]

\* chance_node(state, action, depth) up to its loop: result, the terminal
\* test, the depth test and chances
ChanceNode ==
    /\ pc = "search"
    /\ Looping(Top)
    /\ LET f == Top
           action == f.state.moves[f.i]
       IN \E r \in {result(f.state, action, player, position)} :
          LET placed == IF action[1][1] # -1 THEN Append(f.mesa, action[1]) ELSE f.mesa
              g == [f EXCEPT !.state = r.state]
              ev == eval(r.state, player, r.pos)
          IN
          /\ position' = r.pos
          /\ call' = CallRecord("search", f.state, action, player, position, r, f.mesa)
          /\ IF r.raised
             THEN /\ pc' = "error"
                  /\ erro' = Raised("ValueError", "result", f.depth)
                  /\ stack' = SetTop(g)
             ELSE IF terminal_test(r.new_state)
             THEN /\ pc' = pc
                  /\ erro' = erro
                  /\ stack' = SetTop(Fold(g, r.new_state.utility * Escala))
             ELSE IF f.depth >= d
             THEN /\ pc' = IF ev = <<>> THEN "error" ELSE pc
                  /\ erro' = IF ev = <<>> THEN Raised("TypeError", "max_value", f.depth)
                             ELSE erro
                  /\ stack' = SetTop(IF ev = <<>> THEN g ELSE Fold(g, ev[1]))
             ELSE /\ pc' = pc
                  /\ erro' = erro
                  /\ stack' = SetTop([g EXCEPT !.res = <<r.new_state>>,
                                               !.chances = chances(r.new_state), !.j = 1,
                                               !.res_mesa = placed, !.sum_chances = 0])
    /\ UNCHANGED <<jogadores, players, state, move, vencedor, player, d, mesa, seed, limite, avalia, jogada>>

\* the body of chance_node's loop: outcome (assigned to res_state itself) and
\* the call of max_value or min_value at depth + 1.  A level the model
\* follows gets a frame; any other call is evaluated at once (the value of
\* eval when depth + 1 >= d) or, in a match that does not evaluate the levels
\* below limite, left open.  util * probability raises TypeError on None and
\* probability raises ZeroDivisionError on an empty pool
ValueCall ==
    /\ pc = "search"
    /\ Top.res # <<>>
    /\ Top.j <= Len(Top.chances)
    /\ LET f == Top
           chance == f.chances[f.j]
           out == outcome(f.res[1], chance)
           g == [f EXCEPT !.res = <<out>>, !.j = f.j + 1]
           q == probability(chance)
       IN IF Enters(f.depth + 1)
          THEN /\ stack' = Append(SetTop(g), Frame(out, f.depth + 1, f.res_mesa))
               /\ UNCHANGED <<pc, position, erro>>
          ELSE IF f.depth + 1 >= d \/ avalia
          THEN \E u \in {max_min_value(out, f.depth + 1, player, d, position)} :
               IF u.error \/ u.v = <<>> \/ q[2] = 0
               THEN /\ stack' = SetTop(g)
                    /\ pc' = "error"
                    /\ erro' = product_error(u, q, f.depth)
                    /\ position' = u.pos
               ELSE /\ stack' = SetTop([g EXCEPT !.res = <<u.state>>,
                                                 !.sum_chances = @ + Times(u.v[1], q)])
                    /\ position' = u.pos
                    /\ pc' = pc
                    /\ erro' = erro
          ELSE /\ stack' = SetTop([g EXCEPT !.cut = TRUE])
               /\ UNCHANGED <<pc, position, erro>>
    /\ UNCHANGED <<jogadores, players, state, move, vencedor, player, d,
                   call, mesa, seed, limite, avalia, jogada>>

\* max_value/min_value returns v to chance_node after its loop, and
\* chance_node adds util * probability to sum_chances.
\* state.pedras_restantes is the list object res_state holds too.
ValueReturn ==
    /\ pc = "search"
    /\ Len(stack) > 1
    /\ Top.res = <<>>
    /\ ~Looping(Top)
    /\ LET f == Top
           below == SubSeq(stack, 1, Len(stack) - 1)
           g == below[Len(below)]
           q == probability(g.chances[g.j - 1])
       IN /\ stack' = [below EXCEPT ![Len(below)] =
                        [g EXCEPT !.res = <<[g.res[1] EXCEPT
                                    !.pedras_restantes = f.state.pedras_restantes]>>,
                                  !.sum_chances = IF q[2] = 0 THEN @
                                                  ELSE @ + Times(f.v[1], q),
                                  !.cut = @ \/ f.cut]]
          /\ pc' = IF q[2] = 0 THEN "error" ELSE pc
          /\ erro' = IF q[2] = 0 THEN Raised("ZeroDivisionError", "probability", g.depth)
                     ELSE erro
    /\ UNCHANGED <<jogadores, players, state, position, move, vencedor, player, d,
                   call, mesa, seed, limite, avalia, jogada>>

\* chance_node returns sum_chances / num_chances after its loop
ChanceReturn ==
    /\ pc = "search"
    /\ Top.res # <<>>
    /\ Top.j > Len(Top.chances)
    /\ stack' = SetTop([Fold(Top, Top.sum_chances \div Len(Top.chances))
                            EXCEPT !.res = <<>>, !.chances = <<>>, !.j = 1,
                                   !.res_mesa = Top.mesa, !.sum_chances = 0])
    /\ UNCHANGED <<jogadores, players, state, position, pc, move, vencedor, player, d,
                   call, mesa, seed, limite, avalia, erro, jogada>>

\* argmax returns the first of game.actions(state) of greatest value; where
\* a level of the search was not followed the values are not known and the
\* choice is left to the script
ExpectiminimaxReturn ==
    /\ pc = "search"
    /\ Len(stack) = 1
    /\ Top.res = <<>>
    /\ Top.i > Len(Top.state.moves)
    /\ move' = IF Top.cut THEN state.moves[escolha(Len(state.moves))]
               ELSE state.moves[Top.best]
    /\ jogada' = jogada + 1
    /\ state' = Top.state
    /\ stack' = <<>>
    /\ pc' = "apply"
    /\ UNCHANGED <<jogadores, players, position, vencedor, player, d, call, mesa, seed, limite, avalia, erro>>

\* the body of play_game's loop after the callback, lines 523-546
PlayGame ==
    /\ pc = "apply"
    /\ LET tm == state.to_move
           placement == move[1][1] # -1
           jog == IF placement
                  THEN [jogadores EXCEPT ![tm + 1] = RemoveFirst(@, move[1])]
                  ELSE jogadores
       IN \E r \in {result(state, move, tm, position)} :
          LET state_res == r.new_state
              v == vitoria(state_res, jog, r.pos)
              to_move == state_res.to_move
              pedras_restantes == pool_of(jog, to_move, 0)
              cu == compute_utility(to_move, jog[to_move + 1], pedras_restantes,
                                    state_res.ponta1, state_res.ponta2, move, to_move, r.pos)
          IN
          /\ jogadores' = jog
          /\ position' = r.pos
          /\ call' = CallRecord("play_game", state, move, tm, position, r, mesa)
          /\ mesa' = IF placement THEN Append(mesa, move[1]) ELSE mesa
          /\ vencedor' = v
          /\ IF v # -1
             THEN /\ pc' = "done"
                  /\ state' = r.state
             ELSE /\ pc' = "player"
                  /\ state' = [to_move |-> to_move,
                               pedras |-> jog[to_move + 1],
                               pedras_restantes |-> cu.pedras_restantes,
                               ponta1 |-> state_res.ponta1,
                               ponta2 |-> state_res.ponta2,
                               moves |-> moves(to_move, jog[to_move + 1], pedras_restantes,
                                               state_res.ponta1, state_res.ponta2,
                                               to_move, r.pos),
                               utility |-> cu.utility]
    /\ UNCHANGED <<players, move, player, d, stack, seed, limite, avalia, erro, jogada>>

Next ==
    \/ RandomPlayer
    \/ ExpectiminimaxStart
    \/ ChanceNode
    \/ ValueCall
    \/ ValueReturn
    \/ ChanceReturn
    \/ ExpectiminimaxReturn
    \/ PlayGame

Spec == Init /\ [][Next]_vars

SpecDeep == InitDeep /\ [][Next]_vars

SpecBlocked == InitBlocked /\ [][Next]_vars

SpecSuit == InitSuit /\ [][Next]_vars

\* one match in which seat 2 alone searches, its searches followed to
\* PoolDepth and evaluated below: seat 2 passes three times while the other
\* seats play, and searches with five tiles against a pool of seven (deal 263)
InitPool ==
    /\ Match(263, <<"random_player", "random_player", "expectiminimax", "random_player">>,
             1, PoolDepth, TRUE)
    /\ Start

SpecPool == InitPool /\ [][Next]_vars

\* ------------------------------------------------ result() called directly
\* the moves a caller can make from a hand: each tile on either end, and the
\* pass
Candidates(st) ==
    {<<st.pedras[k], e>> : k \in 1..Len(st.pedras), e \in {0, 1}} \cup {PassMove}

\* matches of random players, at every turn of which result() is also called
\* with each of the Candidates
InitResult ==
    /\ \E k \in 0..(NumDeals - 1), sd \in 0..(NumScripts - 1) :
            Match(k, <<"random_player", "random_player", "random_player", "random_player">>,
                  sd, MaxDepth, FALSE)
    /\ Start

\* game.result(state, move, state.to_move) on the state play_game holds with
\* set ends, for any candidate move: the call returns ("returned") or raises
\* list.remove's ValueError
ApplyResult ==
    /\ pc = "player"
    /\ state.ponta1 # None
    /\ \E mv \in Candidates(state) :
       \E r \in {result(state, mv, state.to_move, position)} :
          /\ call' = CallRecord("result", state, mv, state.to_move, position, r, mesa)
          /\ position' = r.pos
          /\ state' = r.state
          /\ move' = mv
          /\ pc' = IF r.raised THEN "error" ELSE "returned"
          /\ erro' = IF r.raised THEN Raised("ValueError", "result", 0) ELSE erro
    /\ UNCHANGED <<jogadores, players, vencedor, player, d, stack, mesa, seed, limite,
                   avalia, jogada>>

NextResult ==
    \/ RandomPlayer
    \/ PlayGame
    \/ ApplyResult

SpecResult == InitResult /\ [][NextResult]_vars

TypeOK ==
    /\ pc \in {"player", "search", "apply", "done", "error", "returned"}
    /\ \A t \in Tiles : position[t] \in {-1, 0, 1}

\* ------------------------------------------------------------------ C1
Conserved(st, placed) ==
    /\ Len(st.pedras) + Len(st.pedras_restantes) + Len(placed) = 28
    /\ Cardinality(Range(st.pedras) \cup Range(st.pedras_restantes) \cup Range(placed)) = 28

\* C1: tile conservation.  The state play_game holds, every state of the
\* search (the argument and the res_state of every frame) and the state every
\* result() call returns satisfy: hand size + pool size + number of tiles
\* placed on the way to it = 28, and the 28 tiles of hand, pool and placed
\* are pairwise different (no tile is in two of them).
C1_TileConservation ==
    /\ pc # "done" => Conserved(state, mesa)
    /\ \A n \in 1..Len(stack) :
        /\ Conserved(stack[n].state, stack[n].mesa)
        /\ stack[n].res # <<>> => Conserved(stack[n].res[1], stack[n].res_mesa)
    /\ call # <<>> => ~call[1].raised /\ Conserved(call[1].res, call[1].res_mesa)

\* a placement taken from a narrowed list (an event's moves) by a
\* non-searching mover, two levels below the dealt initial state
C1_Witness ==
    /\ call # <<>>
    /\ call[1].site = "search"
    /\ Len(stack) = 2
    /\ stack[1].mesa = <<>>
    /\ call[1].move[1][1] # -1
    /\ call[1].state.to_move # call[1].player
    /\ Len(call[1].res_mesa) = 2
    /\ Len(call[1].res.pedras_restantes) = 20

\* ------------------------------------------------------------------ C2
\* the number of entries of the list ms equal to mv
Count(ms, mv) == Cardinality({k \in 1..Len(ms) : ms[k] = mv})

\* the hand or the pool, whichever moves() reads for st
Relevant(st, pl) == IF st.to_move = pl THEN st.pedras ELSE st.pedras_restantes

\* the pip an end tile exposes to Pedra.igual (both pips while unplaced)
Exposed(p, pos) ==
    IF pos[p] = 0 THEN {p[1]} ELSE IF pos[p] = 1 THEN {p[2]} ELSE {p[1], p[2]}

\* tile t matches end tile p: Pedra.igual says so
Matches(t, p, pos) == igual(t, p, pos)

\* one entry per end a tile matches, the pass entry iff nothing matches
OneEntryPerEnd(st, pl, pos) ==
    LET src == Relevant(st, pl)
        none == \A k \in 1..Len(src) :
                    ~Matches(src[k], st.ponta1, pos) /\ ~Matches(src[k], st.ponta2, pos)
    IN /\ \A k \in 1..Len(src) :
            /\ Count(st.moves, <<src[k], 0>>) = IF Matches(src[k], st.ponta1, pos) THEN 1 ELSE 0
            /\ Count(st.moves, <<src[k], 1>>) = IF Matches(src[k], st.ponta2, pos) THEN 1 ELSE 0
       /\ Count(st.moves, PassMove) = IF none THEN 1 ELSE 0
       /\ \A k \in 1..Len(st.moves) :
            st.moves[k] = PassMove
            \/ (st.moves[k][1] \in Range(src) /\ st.moves[k][2] \in {0, 1})

\* C2: for every state with both ends set that result() returns, the list
\* moves() gave it holds, for every tile of the relevant collection, exactly
\* one entry (tile, 0) if the tile matches end 1 and exactly one entry
\* (tile, 1) if it matches end 2, and the pass entry iff no tile matches.
C2_OneEntryPerEnd ==
    (call # <<>> /\ call[1].res.ponta1 # None)
        => OneEntryPerEnd(call[1].res, call[1].player, call[1].pos_after)

\* the case behind C2's failing input: two ends exposing different pips and
\* a tile of the relevant collection that matches both of them
C2_BothEnds ==
    /\ call # <<>>
    /\ call[1].res.ponta1 # None
    /\ LET st == call[1].res
           pos == call[1].pos_after
           src == Relevant(st, call[1].player)
       IN /\ Exposed(st.ponta1, pos) \cap Exposed(st.ponta2, pos) = {}
          /\ \E k \in 1..Len(src) :
                /\ Matches(src[k], st.ponta1, pos)
                /\ Matches(src[k], st.ponta2, pos)
                /\ Count(st.moves, <<src[k], 0>>) = 1
                /\ Count(st.moves, <<src[k], 1>>) = 0

\* ------------------------------------------------------------------ C3
\* the list is the relevant collection, one entry (tile, -1) per tile
AllTilesFree(st, pl) ==
    LET src == Relevant(st, pl)
    IN st.moves = [k \in 1..Len(src) |-> <<src[k], -1>>]

\* C3: for every state with both ends unset (the state play_game hands to
\* the callback, and every state result() returns), the list moves() gave it
\* is exactly the relevant collection, one entry (tile, -1) per tile and no
\* other entry.
C3_UnsetEndsAllTiles ==
    /\ (pc = "player" /\ state.ponta1 = None) => AllTilesFree(state, state.to_move)
    /\ (call # <<>> /\ call[1].res.ponta1 = None)
            => AllTilesFree(call[1].res, call[1].player)

\* ------------------------------------------------------------------ C4
\* the frames whose chance_node has just called chances(res_state)
AtChances(f) == f.res # <<>> /\ f.j = 1

\* C4: at every node of a search where chances() is called on a state whose
\* mover is the searching player there is exactly one event, it carries the
\* state's full move list and its probability is 1; the events by end with
\* the pass event appear only where the mover is not the searching player.
C4_OwnMoveOneEvent ==
    \A n \in 1..Len(stack) :
        AtChances(stack[n]) =>
            LET f == stack[n]
                st == f.res[1]
            IN IF st.to_move = player
               THEN /\ Len(f.chances) = 1
                    /\ f.chances[1][1] \notin {1, 2, -1}
                    /\ f.chances[1][2] = st.moves
                    /\ probability(f.chances[1]) = <<1, 1>>
               ELSE TRUE

\* ------------------------------------------------------------------ C5
\* fractions <<numerator, denominator>>
FracAdd(q, r) == <<q[1] * r[2] + r[1] * q[2], q[2] * r[2]>>
FracEq(q, r) == q[2] # 0 /\ r[2] # 0 /\ q[1] * r[2] = r[1] * q[2]

RECURSIVE SumProbability(_)
SumProbability(events) ==
    IF events = <<>> THEN <<0, 1>>
    ELSE FracAdd(probability(Head(events)), SumProbability(Tail(events)))

IsMatchEvent(chance) == chance[1] = 1 \/ chance[1] = 2
IsPassEvent(chance) == chance[1] = -1

\* C5: wherever a search calls chances() on a state whose mover is not the
\* searching player, the probabilities of the returned events sum to 1, and
\* the pass event's probability is 1 minus the sum of the match events'.
C5_ProbabilitiesSumToOne ==
    \A n \in 1..Len(stack) :
        (AtChances(stack[n]) /\ stack[n].res[1].to_move # player) =>
            LET events == stack[n].chances
            IN /\ FracEq(SumProbability(events), <<1, 1>>)
               /\ \A k \in 1..Len(events) :
                    IsPassEvent(events[k]) =>
                        FracEq(FracAdd(probability(events[k]),
                                       SumProbability(SelectSeq(events, IsMatchEvent))),
                               <<1, 1>>)

\* ------------------------------------------------------------------ C6
\* the pool tiles one of whose pips is a pip end tile p exposes
PoolMatching(st, p, pos) ==
    {k \in 1..Len(st.pedras_restantes) :
        {st.pedras_restantes[k][1], st.pedras_restantes[k][2]} \cap Exposed(p, pos) # {}}

\* the probability chances() gives the event of category c (0 when absent)
EventProbability(events, c) ==
    IF \E k \in 1..Len(events) : events[k][1] = c
    THEN probability(events[CHOOSE k \in 1..Len(events) : events[k][1] = c])
    ELSE <<0, 1>>

\* C6: wherever a search calls chances() on a state with set ends whose
\* mover is not the searching player, the probability of the event of end k
\* is (number of pool tiles with a pip equal to the pip end k exposes)
\* / (size of the pool), for k = 1 and k = 2.
C6_MatchProbability ==
    \A n \in 1..Len(stack) :
        (/\ AtChances(stack[n])
         /\ stack[n].res[1].to_move # player
         /\ stack[n].res[1].ponta1 # None) =>
            LET st == stack[n].res[1]
                size == Len(st.pedras_restantes)
            IN /\ FracEq(EventProbability(stack[n].chances, 1),
                         <<Cardinality(PoolMatching(st, st.ponta1, position)), size>>)
               /\ FracEq(EventProbability(stack[n].chances, 2),
                         <<Cardinality(PoolMatching(st, st.ponta2, position)), size>>)

\* the case behind C6's failing input: the ends expose different pips, a
\* pool tile carries both, and the end-2 event misses it
C6_BothEnds ==
    \E n \in 1..Len(stack) :
        /\ AtChances(stack[n])
        /\ stack[n].res[1].to_move # player
        /\ stack[n].res[1].to_move # 0
        /\ stack[n].res[1].ponta1 # None
        /\ LET st == stack[n].res[1]
           IN /\ position[st.ponta1] # -1
              /\ position[st.ponta2] # -1
              /\ Exposed(st.ponta1, position) \cap Exposed(st.ponta2, position) = {}
              /\ PoolMatching(st, st.ponta1, position) \cap PoolMatching(st, st.ponta2, position) # {}
              /\ FracEq(EventProbability(stack[n].chances, 1),
                        <<Cardinality(PoolMatching(st, st.ponta1, position)), Len(st.pedras_restantes)>>)
              /\ ~FracEq(EventProbability(stack[n].chances, 2),
                         <<Cardinality(PoolMatching(st, st.ponta2, position)), Len(st.pedras_restantes)>>)

\* ------------------------------------------------------------------ C7
\* the last result() call applied the pass move to a state with set ends
PassOnBoard == call # <<>> /\ call[1].move[1][1] = -1 /\ call[1].state.ponta1 # None

C7_BlockedOpponent ==
    /\ PassOnBoard
    /\ call[1].state.to_move # call[1].player
    /\ call[1].res.utility = -1

\* a pass on a blocked board by the searching player
C7_BlockedOwn ==
    /\ PassOnBoard
    /\ call[1].state.to_move = call[1].player
    /\ call[1].res.utility = 4

\* ------------------------------------------------------------------ C8
SameTiles(s, t) == Len(s) = Len(t) /\ Range(s) = Range(t)

\* C8: a pass leaves the returned state's two ends, hand and pool equal to
\* the argument's (the same order as before the call, the same tiles as
\* after it); to_move differs, no tile is added to the placed ones and no
\* orientation marker changes.
C8_PassFrame ==
    (call # <<>> /\ call[1].move[1][1] = -1) =>
        LET c == call[1]
        IN /\ c.res.ponta1 = c.state.ponta1
           /\ c.res.ponta2 = c.state.ponta2
           /\ c.res.pedras = c.state.pedras
           /\ c.res.pedras_restantes = c.state.pedras_restantes
           /\ SameTiles(c.res.pedras, c.state_after.pedras)
           /\ SameTiles(c.res.pedras_restantes, c.state_after.pedras_restantes)
           /\ c.res.to_move # c.state.to_move
           /\ c.res_mesa = c.mesa
           /\ c.pos_after = c.pos

\* a pass on a non-empty board with a hand and a pool to keep
C8_Witness ==
    /\ PassOnBoard
    /\ Len(call[1].state.pedras) > 0
    /\ Len(call[1].state.pedras_restantes) > 0
    /\ call[1].res.moves # call[1].state.moves

\* ------------------------------------------------------------------ C9
\* the last result() call applied a placement of the searching player
OwnPlacement ==
    call # <<>> /\ call[1].move[1][1] # -1 /\ call[1].state.to_move = call[1].player

TilesOf(st) ==
    (Range(st.pedras) \cup Range(st.pedras_restantes) \cup {st.ponta1, st.ponta2}) \ {None}

\* C10: result() leaves its argument as it was: the same hand and pool
\* sequences, the same ends, and the same orientation marker on every tile
\* reachable from it.
C10_ArgumentUnchanged ==
    call # <<>> =>
        /\ call[1].state_after = call[1].state
        /\ \A t \in TilesOf(call[1].state) : call[1].pos_after[t] = call[1].pos[t]

\* the two mutations behind C10: a blocked pass sorts the argument's pool
C10_PoolSorted ==
    /\ call # <<>>
    /\ call[1].state_after.pedras_restantes # call[1].state.pedras_restantes

\* ... and a placement on end 1 of the first tile re-marks the end tile
C10_EndRemarked ==
    /\ call # <<>>
    /\ call[1].state.ponta1 # None
    /\ call[1].pos[call[1].state.ponta1] = -1
    /\ call[1].pos_after[call[1].state.ponta1] = 1

\* ----------------------------------------------------------------- C11
\* the seat after seat s in the cyclic order 0, 1, 2, 3, 0, ...
NextSeat(s) == IF s = NumPlayers - 1 THEN 0 ELSE s + 1

\* C11: every result() call, whatever the move (placement on an end, first
\* placement, pass, pass on a blocked board), returns a state whose to_move
\* is the seat after the argument's; so along a search path and along the
\* match the seats follow the cyclic order: every frame's res_state is one
\* seat after the frame's state, every frame's state has the seat of the
\* res_state it was expanded from, and play_game's next state is one seat
\* after the last.
C11_TurnAdvances ==
    /\ call # <<>> => call[1].res.to_move = NextSeat(call[1].state.to_move)
    /\ \A n \in 1..Len(stack) :
        /\ stack[n].res # <<>> => stack[n].res[1].to_move = NextSeat(stack[n].state.to_move)
        /\ n > 1 => stack[n].state.to_move = stack[n - 1].res[1].to_move
    /\ (pc = "player" /\ call # <<>> /\ call[1].site = "play_game")
            => state.to_move = NextSeat(call[1].state.to_move)

\* a pass on a non-empty board by seat 3: the turn wraps around to seat 0
C11_Witness ==
    /\ PassOnBoard
    /\ call[1].state.to_move = 3
    /\ call[1].res.to_move = 0

\* a pass on a blocked board
C11_BlockedPass ==
    /\ PassOnBoard
    /\ call[1].res.utility # 0
    /\ call[1].res.to_move = NextSeat(call[1].state.to_move)

\* the other moves of C11: a first placement, a placement on end 2
C11_FirstPlacement ==
    /\ call # <<>>
    /\ call[1].state.ponta1 = None
    /\ call[1].move[2] = -1
    /\ call[1].move[1][1] # -1
    /\ call[1].res.to_move = 1

C11_EndTwo ==
    /\ call # <<>>
    /\ call[1].move[2] = 1
    /\ call[1].res.to_move = NextSeat(call[1].state.to_move)

\* ----------------------------------------------------------------- C12
\* the hand of the root state of the running search
RootHand == stack[1].state.pedras

\* C12: during a search d is the limit fixed from the root hand size n (7
\* for n in {6, 7}, 5 for n in {4, 5}, 9 otherwise); every max/min level
\* whose loop runs (every frame) has a depth counter below d, so result() is
\* applied only below d, and the moves applied on the way to any state of
\* the search number at most its depth, hence fewer than d.
C12_DepthPolicy ==
    (pc = "search" /\ stack # <<>>) =>
        /\ LET n == Len(RootHand)
           IN d = IF n = 6 \/ n = 7 THEN 7 ELSE IF n = 4 \/ n = 5 THEN 5 ELSE 9
        /\ \A n \in 1..Len(stack) :
            /\ stack[n].depth = n
            /\ stack[n].depth < d
            /\ Len(stack[n].res_mesa) - Len(stack[1].mesa) <= stack[n].depth
            /\ Len(stack[n].state.pedras) <= Len(RootHand)

\* a level at depth d = 5 has returned the heuristic value at once: the
\* chance_node at depth 4 has gone on to its next event with no frame pushed
C12_Witness ==
    /\ pc = "search"
    /\ d = 5
    /\ limite >= d
    /\ Len(stack) = d - 1
    /\ Top.res # <<>>
    /\ Top.j > 1

\* the two hand sizes the depth-policy scenario names
C12_HandSeven == pc = "search" /\ stack # <<>> /\ Len(RootHand) = 7 /\ d = 7
C12_HandThree == pc = "search" /\ stack # <<>> /\ Len(RootHand) = 3 /\ d = 9

\* ----------------------------------------------------------------- C13
\* expectiminimax has returned its move to play_game for a root state with
\* unset ends
RootMoveReturned ==
    /\ pc = "apply"
    /\ players[state.to_move + 1] = "expectiminimax"
    /\ state.ponta1 = None

\* C13: the move expectiminimax returns for a root state with unset ends has
\* end-selector -1 and a tile of the root hand: it is neither the pass
\* sentinel nor a tile of the pool.
C13_RootMoveFromHand ==
    RootMoveReturned => move[2] = -1 /\ move[1] \in Range(state.pedras)

\* the loop of argmax is over for a root with unset ends, every level below
\* was followed, and the greatest value is the -1 of the last entry, the pass
\* sentinel: every tile of the hand has a value below -1
C13_SentinelBest ==
    /\ pc = "search"
    /\ Len(stack) = 1
    /\ Top.state.ponta1 = None
    /\ Top.res = <<>>
    /\ ~Looping(Top)
    /\ ~Top.cut
    /\ Top.best = Len(Top.state.moves)
    /\ Top.state.moves[Top.best] = PassMove
    /\ Top.v = <<-Escala>>

\* ----------------------------------------------------------------- C14
\* a pip of tile t is a pip end tile p exposes
SharesExposed(t, p, pos) == {t[1], t[2]} \cap Exposed(p, pos) # {}

\* the candidates of a state against its end p on which Pedra.igual and
\* SharesExposed disagree
Mismatched(st, p, pos) ==
    {t \in Range(st.pedras) \cup Range(st.pedras_restantes) :
        igual(t, p, pos) # SharesExposed(t, p, pos)}

\* C14: in every state with set ends that result() returns, for every tile
\* of the hand and of the pool and each of the two end tiles, in whatever
\* orientation state (-1, 0 or 1) the end tile is, Pedra.igual is true iff
\* one of the candidate's pips is a pip the end tile exposes.
C14_IgualIffSharesPip ==
    (call # <<>> /\ call[1].res.ponta1 # None) =>
        /\ Mismatched(call[1].res, call[1].res.ponta1, call[1].pos_after) = {}
        /\ Mismatched(call[1].res, call[1].res.ponta2, call[1].pos_after) = {}

\* the case behind C14's failing input: the first tile (a, b), a # b, has
\* just been placed and a tile whose higher pip is b is reported as not
\* matching it
C14_FirstTile ==
    /\ call # <<>>
    /\ call[1].state.ponta1 = None
    /\ call[1].res.ponta1 # None
    /\ call[1].pos_after[call[1].res.ponta1] = -1
    /\ \E t \in Range(call[1].res.pedras_restantes) :
            /\ t[1] = call[1].res.ponta1[2]
            /\ t[2] # call[1].res.ponta1[2]
            /\ ~igual(t, call[1].res.ponta1, call[1].pos_after)

\* end tiles in orientation 0 and 1 on which igual and SharesExposed agree
C14_Oriented ==
    /\ call # <<>>
    /\ call[1].res.ponta1 # None
    /\ call[1].pos_after[call[1].res.ponta1] = 0
    /\ call[1].pos_after[call[1].res.ponta2] = 1
    /\ Mismatched(call[1].res, call[1].res.ponta1, call[1].pos_after) = {}
    /\ Mismatched(call[1].res, call[1].res.ponta2, call[1].pos_after) = {}

\* ----------------------------------------------------------------- C15
\* the pip of tile t other than pip c (c itself for the double)
OtherPip(t, c) == IF t[1] = c THEN t[2] ELSE t[1]

\* the last result() call applied a placement to a non-empty board
PlacementOnBoard ==
    call # <<>> /\ call[1].move[1][1] # -1 /\ call[1].state.ponta1 # None

\* the end tile a placement of the call record c is played on, and the other
PlayedOn(c) == IF c.move[2] = 0 THEN c.state.ponta1 ELSE c.state.ponta2
NotPlayedOn(c) == IF c.move[2] = 0 THEN c.state.ponta2 ELSE c.state.ponta1

\* the pips by which the placed tile can be joined to the end it is played on
JoinPips(c) == Exposed(PlayedOn(c), c.pos) \cap {c.move[1][1], c.move[1][2]}

\* C15: a placement on a non-empty board joins the placed tile to the end
\* tile by a pip that end exposed; afterwards the end it was played on is the
\* placed tile exposing its other pip, and the other end exposes what it
\* exposed before -- or, when both ends were the single first tile, the pip
\* of that tile that was not joined.  (With the first placement, which
\* exposes both pips of the first tile, this makes the exposed pips the open
\* pips of the line.)
C15_EndsTrackLine ==
    PlacementOnBoard =>
        LET c == call[1]
            m == c.move[1]
            other == NotPlayedOn(c)
            after1 == IF c.move[2] = 0 THEN c.res.ponta1 ELSE c.res.ponta2
            after2 == IF c.move[2] = 0 THEN c.res.ponta2 ELSE c.res.ponta1
        IN /\ JoinPips(c) # {}
           /\ after1 = m
           /\ after2 = other
           /\ \E j \in JoinPips(c) :
                /\ Exposed(m, c.pos_after) = {OtherPip(m, j)}
                /\ Exposed(other, c.pos_after) =
                        IF other # PlayedOn(c) THEN Exposed(other, c.pos)
                        ELSE {OtherPip(other, j)}

\* the case behind C15's failing input: the second placement of the game
\* joins the first tile (a, b), a # b, by its pip b, and the first tile is
\* then treated as exposing b
C15_SecondPlacement ==
    /\ PlacementOnBoard
    /\ call[1].state.ponta1 = call[1].state.ponta2
    /\ call[1].pos[call[1].state.ponta1] = -1
    /\ LET first == call[1].state.ponta1
       IN /\ first[1] # first[2]
          /\ JoinPips(call[1]) = {first[2]}
          /\ Exposed(first, call[1].pos_after) = {first[2]}

\* a placement on end 2 of a longer line, where the ends are tracked
C15_LaterPlacement ==
    /\ PlacementOnBoard
    /\ call[1].move[2] = 1
    /\ call[1].state.ponta1 # call[1].state.ponta2
    /\ \E j \in JoinPips(call[1]) :
            /\ Exposed(call[1].move[1], call[1].pos_after) = {OtherPip(call[1].move[1], j)}
            /\ Exposed(call[1].state.ponta1, call[1].pos_after)
                    = Exposed(call[1].state.ponta1, call[1].pos)

\* ----------------------------------------------------------------- C16
\* C16: among the passes applied so far on a blocked board (no hand or pool
\* tile matches an end), two by the same kind of mover (the searching player,
\* or another seat) whose comparison of the hand's pip sum with the pip sum
\* of the len(hand) lowest pool tiles came out differently have different
\* utility markers, one +4 and one -1.
C16_TieBreakDecides ==
    call # <<>> =>
        \A a, b \in call[1].bloqueios :
            (a.own = b.own /\ a.lower /\ ~b.lower)
                => (a.utility # b.utility /\ {a.utility, b.utility} = {4, -1})

\* the case behind C16's failing input: two blocked passes by seats other
\* than the searching player, one with the lower hand sum and one without,
\* both with marker -1
C16_SameMarker ==
    /\ call # <<>>
    /\ \E a, b \in call[1].bloqueios :
            /\ ~a.own /\ ~b.own
            /\ a.lower /\ ~b.lower
            /\ a.utility = -1 /\ b.utility = -1

\* ----------------------------------------------------------------- C17
\* the last result() call was made by the chance_node call the loop of the
\* top frame has just finished, and it returned a non-zero utility marker
TerminalBranch ==
    /\ pc = "search"
    /\ call # <<>>
    /\ call[1].site = "search"
    /\ call[1].res.utility # 0
    /\ call[1].depth = Len(stack)
    /\ Top.i > 1

\* C17: in every search, a state result() returns with a non-zero utility
\* marker ends its branch: chance_node returns the marker as the value of the
\* branch, no chance event is enumerated from that state and no max or min
\* level is entered from it, so every state a level of the search expands
\* below the root has marker 0.
C17_TerminalShortCircuit ==
    /\ \A n \in 2..Len(stack) : stack[n].state.utility = 0
    /\ \A n \in 1..Len(stack) : stack[n].res # <<>> => stack[n].res[1].utility = 0
    /\ TerminalBranch =>
            /\ Top.res = <<>>
            /\ Top.chances = <<>>
            /\ Top.util = <<call[1].res.utility * Escala>>

\* a losing branch (-1) cut below the root, its value handed to the loop
C17_Witness ==
    /\ TerminalBranch
    /\ Len(stack) >= 2
    /\ call[1].res.utility = -1
    /\ Top.util = <<-Escala>>

\* a winning branch (+4) cut below the root
C17_WonBranch ==
    /\ TerminalBranch
    /\ Len(stack) >= 2
    /\ call[1].res.utility = 4
    /\ Top.util = <<4 * Escala>>

\* ----------------------------------------------------------------- C18
\* chance_node is about to call max_value/min_value at the depth limit, which
\* returns eval of the outcome state, for a searching player at seat 1 or 2
AtEval ==
    /\ pc = "search"
    /\ stack # <<>>
    /\ Top.res # <<>>
    /\ Top.j <= Len(Top.chances)
    /\ Top.depth + 1 >= d
    /\ player \in {1, 2}

\* the state eval is called with
EvalState == outcome(Top.res[1], Top.chances[Top.j])

\* the legal non-pass moves of a hand: the pairs of a tile and an end it
\* matches
LegalPlacements(st, pos) ==
    {<<k, e>> \in (1..Len(st.pedras)) \X {0, 1} :
        igual(st.pedras[k], IF e = 0 THEN st.ponta1 ELSE st.ponta2, pos)}

\* C18: the mobility feature eval uses for seats 1 and 2 is the number of
\* legal non-pass moves of the searching player's hand against the ends, 0
\* when no tile of the hand matches an end.
C18_MobilityCountsMoves ==
    AtEval =>
        mobility(EvalState, player, position)
            = Cardinality(LegalPlacements(EvalState, position))

\* eval is called on a state in which no tile of the hand matches an end,
\* and its mobility term is 1: the pass sentinel is counted
C18_NoMatch ==
    /\ AtEval
    /\ LegalPlacements(EvalState, position) = {}
    /\ mobility(EvalState, player, position) = 1

\* eval is called on a state in which a tile of the hand matches both ends
\* and is counted once
C18_BothEnds ==
    /\ AtEval
    /\ \E k \in 1..Len(EvalState.pedras) :
            {<<k, 0>>, <<k, 1>>} \subseteq LegalPlacements(EvalState, position)
    /\ mobility(EvalState, player, position)
            < Cardinality(LegalPlacements(EvalState, position))

\* eval is called on a state whose hand has matching tiles, none of them on
\* both ends: there the mobility term is the number of legal placements
C18_Agree ==
    /\ AtEval
    /\ LegalPlacements(EvalState, position) # {}
    /\ mobility(EvalState, player, position)
            = Cardinality(LegalPlacements(EvalState, position))

\* ------------------------------------------------------------------ C19
\* a search of seat 3 has ended in an exception where the value of a
\* max_value/min_value call at the depth limit is made or used: in eval, or
\* in the chance_node call at depth d - 1 that called it
AbsentHeuristic ==
    /\ pc = "error"
    /\ player = 3
    /\ erro[1].em \in {"eval", "chance_node", "max_value"}
    /\ erro[1].depth >= d - 1

\* C19: when seat 3 searches and the search reaches its depth limit at a
\* state that is not terminal, the exception that ends the search is raised
\* by eval: eval returns no absent value for chance_node to multiply by the
\* probability or for max_value/min_value to compare.
C19_EvalRaises ==
    AbsentHeuristic => erro[1].em = "eval"

\* the search of seat 3 ended in the TypeError of the product of line 136,
\* in the chance_node call one level above the depth limit 7
C19_NoneInProduct ==
    /\ AbsentHeuristic
    /\ d = 7
    /\ erro = Raised("TypeError", "chance_node", 6)

\* ------------------------------------------------------------------ C20
\* a direct result() call
DirectCall == call # <<>> /\ call[1].site = "result"

\* its move is a tile played on an end it does not match (a tile matching
\* neither end is one on either end)
WrongEnd(c) ==
    /\ c.move[1][1] # -1
    /\ c.move \notin Range(c.state.moves)
    /\ ~igual(c.move[1], PlayedOn(c), c.pos)
    /\ ~SharesExposed(c.move[1], PlayedOn(c), c.pos)

NeitherEnd(c) ==
    /\ WrongEnd(c)
    /\ ~igual(c.move[1], NotPlayedOn(c), c.pos)
    /\ ~SharesExposed(c.move[1], NotPlayedOn(c), c.pos)

\* its move is the pass while the list has a tile move
PassWhileMatch(c) ==
    /\ c.move[1][1] = -1
    /\ c.move \notin Range(c.state.moves)
    /\ \E k \in 1..Len(c.state.moves) : c.state.moves[k][1][1] # -1

IllegalMove(c) == WrongEnd(c) \/ PassWhileMatch(c)

\* the move has taken effect in the returned state: the tile has left the
\* hand and is the end it was played on, or the turn has passed on
TakenEffect(c) ==
    /\ c.res.to_move = NextSeat(c.state.to_move)
    /\ c.move[1][1] # -1 =>
          /\ c.move[1] \notin Range(c.res.pedras)
          /\ (IF c.move[2] = 0 THEN c.res.ponta1 ELSE c.res.ponta2) = c.move[1]

\* C20: result() on a move that is not in the state's list of moves (a hand
\* tile that matches neither end, a tile on an end it does not match, a pass
\* while a tile move is listed) raises an error and returns no state in which
\* the move has taken effect; the argument state is as it was.
C20_IllegalMoveRejected ==
    (DirectCall /\ IllegalMove(call[1])) =>
        /\ call[1].raised
        /\ pc = "error"
        /\ call[1].state_after = call[1].state
        /\ call[1].pos_after = call[1].pos

\* result() has returned a state in which a tile matching neither end has
\* left the hand and become an end
C20_NeitherEndApplied ==
    /\ DirectCall
    /\ NeitherEnd(call[1])
    /\ pc = "returned"
    /\ TakenEffect(call[1])

\* the same for a tile that matches the other end only
C20_WrongEndApplied ==
    /\ DirectCall
    /\ WrongEnd(call[1])
    /\ ~NeitherEnd(call[1])
    /\ pc = "returned"
    /\ TakenEffect(call[1])

\* result() has returned the next seat's state for a pass although a tile
\* move was listed
C20_PassApplied ==
    /\ DirectCall
    /\ PassWhileMatch(call[1])
    /\ pc = "returned"
    /\ TakenEffect(call[1])

\* no direct call raises: the candidates are tiles of the hand
C20_NeverRaises == DirectCall => ~call[1].raised /\ pc = "returned"

\* a listed move is applied the same way
C20_LegalApplied ==
    /\ DirectCall
    /\ call[1].move \in Range(call[1].state.moves)
    /\ pc = "returned"
    /\ TakenEffect(call[1])

\* ------------------------------------------------------------------ C21
\* the events of the chance_node calls in progress
Events == UNION {Range(stack[k].chances) : k \in 1..Len(stack)}

\* the root of the search in progress has a pool of at least three tiles
RootPool == pc = "search" /\ stack # <<>> /\ Len(stack[1].state.pedras_restantes) >= 3

\* probability(chance) is a number of [0, 1]
UnitInterval(chance) ==
    LET q == probability(chance)
    IN q[2] # 0 /\ 0 <= q[1] /\ q[1] <= q[2]

\* the divisor n of an event by end or of the pass event is not 0, and the
\* moves of the event and the count n_moves do not exceed it
WithinDivisor(chance) ==
    /\ chance[4] # 0
    /\ IsMatchEvent(chance) => Len(chance[2]) <= chance[4]
    /\ IsPassEvent(chance) => chance[3] <= chance[4]

\* C21: in a search from a root whose pool has at least three tiles, whoever
\* the searching player, every event chances() builds has a probability that
\* is defined and in [0, 1]: the pool size it is divided by is not zero, an
\* event by end has no more moves than that, and the number of moves the
\* pass event is computed from is no more than that.
C21_ProbabilityWellDefined ==
    RootPool => \A chance \in Events :
                    /\ UnitInterval(chance)
                    /\ chance[1] # 0 => WithinDivisor(chance)

\* the searching player is to move in the state of a chance_node call, and
\* its hand has more moves than the pool has tiles: the pass event's
\* probability 1 - n_moves / n is negative
C21_NegativeProbability ==
    /\ RootPool
    /\ \E chance \in Range(Top.chances) :
          /\ IsPassEvent(chance)
          /\ Top.res[1].to_move = player
          /\ chance[3] > chance[4]
          /\ chance[4] >= 3
          /\ probability(chance)[1] < 0

\* events of an opponent's move: the moves come from the pool itself
C21_OpponentEvents ==
    /\ RootPool
    /\ Top.res # <<>>
    /\ Top.res[1].to_move # player
    /\ \E chance \in Range(Top.chances) : IsMatchEvent(chance) /\ WithinDivisor(chance)

\* no event is divided by an empty pool
C21_DivisorNotZero ==
    RootPool => \A chance \in Events : chance[1] # 0 => chance[4] >= 3

====
